---- MODULE Spec2Model ----
(***************************************************************************)
(* Model of the AI Document Portal (ConroeISD_AI_Chatbot.py): one          *)
(* Streamlit session with its session state (conversation, chat_history,   *)
(* document_processed), the two sidebar widgets (API key, file uploader),  *)
(* the "Process Document" button handler, the chat input handler and the   *)
(* streaming callback handler.  A second specification, SpecRules, models  *)
(* the rule-first orchestrator of the front-end that carries the static    *)
(* rule list.                                                              *)
(***************************************************************************)
EXTENDS Integers, Sequences, FiniteSets, TLC

VARIABLES
    conversation,         \* st.session_state.conversation: None or the chain
    chat_history,         \* st.session_state.chat_history: the Transcript
    document_processed,   \* st.session_state.document_processed
    openai_api_key,       \* value of the sidebar text_input
    uploaded_file,        \* value of the sidebar file_uploader: None or its text
    chat_input_disabled,  \* the disabled flag the chat input was last rendered with
    pc,                   \* "idle": no script run; "calling": inside conversation(...)
    callback_handler,     \* the StreamlitCallbackHandler of the running call
    stream,               \* tokens the running call has still to emit
    answer,               \* the answer text the running call is producing
    sent,                 \* the request the running call was issued with
    ui,                   \* the feedback element the last script run rendered
    lastEvent,            \* what triggered the last script run
    nCalls,               \* invocations of st.session_state.conversation so far
    nEmbedCalls,          \* embedding / vector store calls issued so far
    nIngestOk,            \* successful ingests so far
    ingestMark,           \* Len(chat_history) at the last successful ingest
    atSubmit              \* Len(chat_history) and nCalls when the last message arrived

vars == <<conversation, chat_history, document_processed, openai_api_key,
          uploaded_file, chat_input_disabled, pc, callback_handler, stream,
          answer, sent, ui, lastEvent, nCalls, nEmbedCalls, nIngestOk,
          ingestMark, atSubmit>>

\* Python's None; every optional value of the model is a record, so that it
\* can be compared with None.
None == [none |-> TRUE]

\* ------------------------------------------------------------------ bounds
MaxQuestions == 2     \* questions submitted to an enabled chat input
MaxIngests == 2       \* clicks on "Process Document" that reach the embedding call

MaxMsgLen == 3        \* characters of a message put to the Rule Matcher
MaxRuleMessages == 1  \* messages handled by the rule-first orchestrator

\* ------------------------------------------------------------------ inputs
Keys == {"", "sk-1"}

\* Documents are character sequences; "nl" is the newline character, "sp" a blank.
Documents == { <<>>, <<"nl", "sp">>, <<"a">>, <<"a", "nl", "b">> }

\* An UploadedFile: getvalue().decode("utf-8") is its text.
Files == { [text |-> d] : d \in Documents }

\* Text is a sequence of tokens; a string is the concatenation of its tokens.
Questions == { <<"q1">>, <<"q2">> }
Answers == { <<"a1">>, <<"a1", "a2">> }
Condensed == { <<"c1">> }

\* ------------------------------------------------------- text splitting
RECURSIVE SplitOn(_, _, _)
\* str.split(separator) over a character sequence: cur is the piece being read.
SplitOn(s, sep, cur) ==
    IF s = <<>> THEN <<cur>>
    ELSE IF Head(s) = sep THEN <<cur>> \o SplitOn(Tail(s), sep, <<>>)
    ELSE SplitOn(Tail(s), sep, Append(cur, Head(s)))

RECURSIVE JoinWith(_, _)
JoinWith(pieces, sep) ==
    IF pieces = <<>> THEN <<>>
    ELSE IF Len(pieces) = 1 THEN pieces[1]
    ELSE pieces[1] \o <<sep>> \o JoinWith(Tail(pieces), sep)

IsSpace(c) == c \in {"nl", "sp"}

RECURSIVE LStrip(_)
LStrip(s) == IF s # <<>> /\ IsSpace(Head(s)) THEN LStrip(Tail(s)) ELSE s

RECURSIVE RStrip(_)
RStrip(s) ==
    IF s # <<>> /\ IsSpace(s[Len(s)]) THEN RStrip(SubSeq(s, 1, Len(s) - 1)) ELSE s

Strip(s) == RStrip(LStrip(s))

NonEmptyPieces(pieces) == SelectSeq(pieces, LAMBDA p : p # <<>>)

\* CharacterTextSplitter(separator="\n", chunk_size=1000, ...).split_text for a
\* text shorter than chunk_size: the non-empty pieces are merged back into one
\* chunk, stripped, and an empty chunk is dropped.
split_text(document_text) ==
    LET merged == Strip(JoinWith(NonEmptyPieces(SplitOn(document_text, "nl", <<>>)), "nl"))
    IN IF merged = <<>> THEN <<>> ELSE <<merged>>

\* ------------------------------------------------------ process_document
\* process_document without the "if not chunks" check of lines 69-71.
process_document_NoChunkCheck(document_text, key, embedOk) ==
    IF ~embedOk THEN None ELSE [texts |-> split_text(document_text)]

\* Lines 59-83: None when the text yields no chunk or when the embedding /
\* vector store call raises (embedOk = FALSE), else the vector store.
process_document(document_text, key, embedOk) ==
    LET chunks == split_text(document_text)
    IN IF chunks = <<>> THEN None
       ELSE IF ~embedOk THEN None
       ELSE [texts |-> chunks]

\* The embedding call of lines 74-78 is reached only with at least one chunk.
EmbedIssued(document_text) == split_text(document_text) # <<>>

\* The st.error of process_document: line 70 or line 82.
ProcessError(document_text) ==
    IF split_text(document_text) = <<>> THEN "error_chunks" ELSE "error_exception"

\* get_conversation_chain that carries the previous chain's memory over.
get_conversation_chain_KeepMemory(vectorstore, key) ==
    [id |-> nIngestOk + 1, key |-> key, retriever |-> vectorstore.texts,
     memory |-> IF conversation = None THEN <<>> ELSE conversation.memory]

\* Lines 97-115: a new chain over the vector store, the llm holding the key it
\* was built with, and a fresh, empty ConversationBufferMemory.
get_conversation_chain(vectorstore, key) ==
    [id |-> nIngestOk + 1, key |-> key, retriever |-> vectorstore.texts,
     memory |-> <<>>]

\* The guard of line 155 without its key test.
CanProcess_NoKeyCheck(file, key) == file # None

\* Line 155: uploaded_file is not None and openai_api_key.
CanProcess(file, key) == file # None /\ key # ""

\* Lines 163-169 with a failed ingest dropping the session back to not ready.
SessionAfterIngest_ResetOnFailure(vectorstore, key) ==
    IF vectorstore # None
    THEN [conversation |-> get_conversation_chain(vectorstore, key),
          document_processed |-> TRUE]
    ELSE [conversation |-> None, document_processed |-> FALSE]

\* Lines 163-169: the session state after process_document returned.
SessionAfterIngest(vectorstore, key) ==
    IF vectorstore # None
    THEN [conversation |-> get_conversation_chain(vectorstore, key),
          document_processed |-> TRUE]
    ELSE [conversation |-> conversation, document_processed |-> document_processed]

\* ------------------------------------------------------------ chat input
\* A chat input that hands the submitted text over whatever its disabled flag.
chat_input_IgnoreDisabled(text, disabled) == [value |-> text]

\* Line 185: a disabled chat input yields None, an enabled one the submitted text.
chat_input(text, disabled) == IF disabled THEN None ELSE [value |-> text]

\* list.append that replaces the list by the new element.
AppendMessage_Replace(history, message) == <<message>>

\* Lines 187 and 203: chat_history.append(message).
AppendMessage(history, message) == Append(history, message)

\* An except branch that keeps what was streamed so far as the assistant message.
OnException_AppendPartial(history, text) ==
    IF text = <<>> THEN history
    ELSE Append(history, [role |-> "assistant", content |-> text])

\* Lines 205-206: the except branch reports the error and appends nothing.
OnException(history, text) == history

\* ------------------------------------------------- StreamlitCallbackHandler
\* Lines 38-40: __init__ with initial_text = "".
NewCallbackHandler == [text |-> <<>>]

\* Lines 42-45: self.text += token, then the container shows self.text.
on_llm_new_token(self, token) == [self EXCEPT !.text = self.text \o <<token>>]

\* ------------------------------------------------ the conversation chain
\* The chain is built at lines 110-114 from one streaming llm and no separate
\* condense_question_llm, and called at lines 198-200 with the handler as a
\* call-level callback: with a non-empty memory the chain first has the llm
\* rephrase the question, and those tokens reach the same handler before the
\* tokens of the answer.
TokensOfCall(memory, condensed, ans) ==
    IF memory = <<>> THEN ans ELSE condensed \o ans

\* save_context of the chain's ConversationBufferMemory after a call that
\* succeeded: the question and the answer are added to the memory.
SaveContext(memory, question, ans) ==
    memory \o << [type |-> "human", content |-> question],
                 [type |-> "ai", content |-> ans] >>

\* The request the chain issues: the messages of its own memory and the question.
RequestOf(chain, question) == [chat_history |-> chain.memory, question |-> question]

\* ------------------------------------------------------------------- Init
\* Lines 124-129: the session state of a new session, before any widget was
\* touched; the first script run renders the chat input disabled.
Init ==
    /\ conversation = None
    /\ chat_history = <<>>
    /\ document_processed = FALSE
    /\ openai_api_key = ""
    /\ uploaded_file = None
    /\ chat_input_disabled = TRUE
    /\ pc = "idle"
    /\ callback_handler = None
    /\ stream = <<>>
    /\ answer = <<>>
    /\ sent = None
    /\ ui = "none"
    /\ lastEvent = "start"
    /\ nCalls = 0
    /\ nEmbedCalls = 0
    /\ nIngestOk = 0
    /\ ingestMark = 0
    /\ atSubmit = None

\* A script run that reaches line 185 without a submitted question renders the
\* chat input with disabled = not document_processed and leaves no call behind.
RunWithoutQuestion ==
    /\ chat_input_disabled' = ~document_processed'
    /\ pc' = "idle"
    /\ callback_handler' = None
    /\ stream' = <<>>
    /\ answer' = <<>>
    /\ sent' = None
    /\ UNCHANGED <<chat_history, nCalls, atSubmit>>

\* Lines 140-144: the user edits the API key; the script reruns.
ChangeKey(k) ==
    /\ pc = "idle"
    /\ k # openai_api_key
    /\ openai_api_key' = k
    /\ ui' = "none"
    /\ lastEvent' = "key"
    /\ UNCHANGED <<conversation, document_processed, uploaded_file, nEmbedCalls,
                   nIngestOk, ingestMark>>
    /\ RunWithoutQuestion

\* Lines 148-151: the user picks or removes the file; the script reruns.
UploadFile(f) ==
    /\ pc = "idle"
    /\ f # uploaded_file
    /\ uploaded_file' = f
    /\ ui' = "none"
    /\ lastEvent' = "file"
    /\ UNCHANGED <<conversation, document_processed, openai_api_key, nEmbedCalls,
                   nIngestOk, ingestMark>>
    /\ RunWithoutQuestion

\* Lines 154-173: a click on "Process Document".
ProcessDocument ==
    /\ pc = "idle"
    /\ nEmbedCalls < MaxIngests
    /\ lastEvent' = "process"
    /\ IF CanProcess(uploaded_file, openai_api_key)
       THEN \E embedOk \in BOOLEAN :
              LET document_text == uploaded_file.text
                  vectorstore == process_document(document_text, openai_api_key, embedOk)
                  after == SessionAfterIngest(vectorstore, openai_api_key)
              IN /\ conversation' = after.conversation
                 /\ document_processed' = after.document_processed
                 /\ ui' = IF vectorstore # None THEN "success"
                          ELSE ProcessError(document_text)
                 /\ nEmbedCalls' = nEmbedCalls + (IF EmbedIssued(document_text) THEN 1 ELSE 0)
                 /\ nIngestOk' = nIngestOk + (IF vectorstore # None THEN 1 ELSE 0)
                 /\ ingestMark' = IF vectorstore # None THEN Len(chat_history)
                                  ELSE ingestMark
       ELSE /\ ui' = IF openai_api_key = "" THEN "warn_key" ELSE "warn_file"
            /\ UNCHANGED <<conversation, document_processed, nEmbedCalls, nIngestOk,
                           ingestMark>>
    /\ UNCHANGED <<openai_api_key, uploaded_file>>
    /\ RunWithoutQuestion

\* Lines 185-200: the user submits text q to the chat input.
SubmitQuestion(q) ==
    /\ pc = "idle"
    /\ nCalls < MaxQuestions
    /\ UNCHANGED <<document_processed, openai_api_key, uploaded_file, nEmbedCalls,
                   nIngestOk, ingestMark>>
    /\ LET user_question == chat_input(q, ~document_processed)
           message == [role |-> "user", content |-> q]
       IN IF user_question = None
          THEN /\ lastEvent' = "rejected"
               /\ ui' = "none"
               /\ RunWithoutQuestion
               /\ UNCHANGED conversation
          ELSE IF conversation = None
          THEN \* line 198 raises inside the try: None is not callable
               /\ chat_history' = OnException(AppendMessage(chat_history, message), <<>>)
               /\ atSubmit' = [len |-> Len(chat_history), calls |-> nCalls,
                               question |-> user_question.value]
               /\ lastEvent' = "raised"
               /\ ui' = "error_completion"
               /\ pc' = "idle"
               /\ callback_handler' = NewCallbackHandler
               /\ chat_input_disabled' = ~document_processed
               /\ UNCHANGED <<conversation, stream, answer, sent, nCalls>>
          ELSE \E ans \in Answers, condensed \in Condensed :
               /\ chat_history' = AppendMessage(chat_history, message)
               /\ atSubmit' = [len |-> Len(chat_history), calls |-> nCalls,
                               question |-> user_question.value]
               /\ callback_handler' = NewCallbackHandler
               /\ sent' = RequestOf(conversation, user_question.value)
               /\ stream' = TokensOfCall(conversation.memory, condensed, ans)
               /\ answer' = ans
               /\ nCalls' = nCalls + 1
               /\ pc' = "calling"
               /\ lastEvent' = "question"
               /\ ui' = "none"
               /\ chat_input_disabled' = ~document_processed
               /\ UNCHANGED conversation

\* Lines 42-45, called by the running chain for every token of the llm.
OnToken ==
    /\ pc = "calling"
    /\ stream # <<>>
    /\ callback_handler' = on_llm_new_token(callback_handler, Head(stream))
    /\ stream' = Tail(stream)
    /\ lastEvent' = "token"
    /\ UNCHANGED <<conversation, chat_history, document_processed, openai_api_key,
                   uploaded_file, chat_input_disabled, pc, answer, sent, ui, nCalls,
                   nEmbedCalls, nIngestOk, ingestMark, atSubmit>>

\* Lines 198-203: the call returns; the chain has saved the exchange to its
\* memory, response['chat_history'] is that memory, and its last message is
\* appended to the Transcript.
CallReturns ==
    /\ pc = "calling"
    /\ stream = <<>>
    /\ LET memory == SaveContext(conversation.memory, sent.question, answer)
           response == [question |-> sent.question, chat_history |-> memory,
                        answer |-> answer]
       IN /\ conversation' = [conversation EXCEPT !.memory = memory]
          /\ chat_history' = AppendMessage(chat_history,
                 [role |-> "assistant",
                  content |-> response.chat_history[Len(response.chat_history)].content])
    /\ pc' = "idle"
    /\ lastEvent' = "returned"
    /\ ui' = "none"
    /\ sent' = None
    /\ UNCHANGED <<document_processed, openai_api_key, uploaded_file,
                   chat_input_disabled, callback_handler, stream, answer, nCalls,
                   nEmbedCalls, nIngestOk, ingestMark, atSubmit>>

\* Lines 205-206: the call raises, before, during or after the stream.
CallRaises ==
    /\ pc = "calling"
    /\ chat_history' = OnException(chat_history, callback_handler.text)
    /\ pc' = "idle"
    /\ lastEvent' = "raised"
    /\ ui' = "error_completion"
    /\ stream' = <<>>
    /\ sent' = None
    /\ UNCHANGED <<conversation, document_processed, openai_api_key, uploaded_file,
                   chat_input_disabled, callback_handler, answer, nCalls, nEmbedCalls,
                   nIngestOk, ingestMark, atSubmit>>

Next ==
    \/ \E k \in Keys : ChangeKey(k)
    \/ \E f \in Files \cup {None} : UploadFile(f)
    \/ ProcessDocument
    \/ \E q \in Questions : SubmitQuestion(q)
    \/ OnToken
    \/ CallReturns
    \/ CallRaises

Spec == Init /\ [][Next]_vars

\* ------------------------------------------- the rule-first orchestrator
\* The static, ordered rule list.  Messages and triggers are character
\* sequences; "W" and "P" are the upper-case forms of "w" and "p".
Rules ==
    << [trigger |-> <<"P", "w">>, reply |-> <<"reset-guide">>],
       [trigger |-> <<"w">>, reply |-> <<"wifi-guide">>] >>

Alphabet == {"p", "w", "W", "x"}

RuleMessages == UNION { [1..n -> Alphabet] : n \in 1..MaxMsgLen }

LowerChar(c) == IF c = "W" THEN "w" ELSE IF c = "P" THEN "p" ELSE c

Lower(text) == [i \in 1..Len(text) |-> LowerChar(text[i])]

\* sub is a contiguous part of text.
Contains(text, sub) ==
    \E i \in 1..(Len(text) - Len(sub) + 1) : SubSeq(text, i, i + Len(sub) - 1) = sub

RECURSIVE LastMatchFrom(_, _)
LastMatchFrom(text, i) ==
    IF i < 1 THEN None
    ELSE IF Contains(Lower(text), Lower(Rules[i].trigger))
    THEN [value |-> Rules[i].reply]
    ELSE LastMatchFrom(text, i - 1)

\* A matcher that scans the rule list from its end.
match_LastRuleWins(text) == LastMatchFrom(text, Len(Rules))

RECURSIVE MatchFrom(_, _)
\* The scan of the rule list in declared order, from rule i on.
MatchFrom(text, i) ==
    IF i > Len(Rules) THEN None
    ELSE IF Contains(Lower(text), Lower(Rules[i].trigger))
    THEN [value |-> Rules[i].reply]
    ELSE MatchFrom(text, i + 1)

\* match(text): the reply of the first rule whose lower-cased trigger is a
\* substring of the lower-cased text, or None.
match(text) == MatchFrom(text, 1)

\* A READY session: a document was ingested, nothing was asked yet.
InitRules ==
    /\ conversation = [id |-> 1, key |-> "sk-1", retriever |-> <<<<"a">>>>, memory |-> <<>>]
    /\ chat_history = <<>>
    /\ document_processed = TRUE
    /\ openai_api_key = "sk-1"
    /\ uploaded_file = [text |-> <<"a">>]
    /\ chat_input_disabled = FALSE
    /\ pc = "idle"
    /\ callback_handler = None
    /\ stream = <<>>
    /\ answer = <<>>
    /\ sent = None
    /\ ui = "none"
    /\ lastEvent = "start"
    /\ nCalls = 0
    /\ nEmbedCalls = 1
    /\ nIngestOk = 1
    /\ ingestMark = 0
    /\ atSubmit = None

\* The number of user Messages of a Transcript.
UserCount(history) == Cardinality({ i \in 1..Len(history) : history[i].role = "user" })

\* The rule-first orchestrator takes a message in READY state.
Accepting ==
    /\ pc = "idle"
    /\ document_processed
    /\ UserCount(chat_history) < MaxRuleMessages

\* What every step of the rule-first orchestrator does with message m.
RuleAccept(m) ==
    /\ atSubmit' = [len |-> Len(chat_history), calls |-> nCalls, question |-> m]
    /\ UNCHANGED <<conversation, document_processed, openai_api_key, uploaded_file,
                   chat_input_disabled, pc, callback_handler, stream, sent,
                   nEmbedCalls, nIngestOk, ingestMark>>

\* Steps 1-2: a rule matches; its reply is the assistant Message, delivered in
\* one shot, and the Completion Client is not called.
RuleReply ==
    /\ Accepting
    /\ \E m \in RuleMessages :
          /\ match(m) # None
          /\ RuleAccept(m)
          /\ chat_history' = chat_history \o
                << [role |-> "user", content |-> m],
                   [role |-> "assistant", content |-> match(m).value] >>
          /\ lastEvent' = "rule"
          /\ ui' = "none"
          /\ UNCHANGED <<nCalls, answer>>

\* Steps 1, 3, 4: no rule matches and the completion call succeeds.
CompletionReply ==
    /\ Accepting
    /\ \E m \in RuleMessages, ans \in Answers :
          /\ match(m) = None
          /\ RuleAccept(m)
          /\ chat_history' = chat_history \o
                << [role |-> "user", content |-> m],
                   [role |-> "assistant", content |-> ans] >>
          /\ answer' = ans
          /\ nCalls' = nCalls + 1
          /\ lastEvent' = "returned"
          /\ ui' = "none"

\* Steps 1, 3, 5: no rule matches and the completion call fails.
CompletionFailure ==
    /\ Accepting
    /\ \E m \in RuleMessages :
          /\ match(m) = None
          /\ RuleAccept(m)
          /\ chat_history' = Append(chat_history, [role |-> "user", content |-> m])
          /\ nCalls' = nCalls + 1
          /\ lastEvent' = "raised"
          /\ ui' = "error_completion"
          /\ UNCHANGED answer

NextRules ==
    \/ RuleReply
    \/ CompletionReply
    \/ CompletionFailure

SpecRules == InitRules /\ [][NextRules]_vars

\* ------------------------------------------------------------ properties
IsPrefix(s, t) == Len(s) <= Len(t) /\ SubSeq(t, 1, Len(s)) = s

UserMessage(q) == [role |-> "user", content |-> q]

AssistantMessage(text) == [role |-> "assistant", content |-> text]

\* C1: a message accepted in READY state (no rule matches in this application,
\* which has no rule list) leads to exactly one invocation of the conversation
\* chain; while it runs and when it raises, the Transcript holds exactly one
\* entry more than before, the user message; when it returns, exactly two more,
\* the user message followed by the complete answer.
C1_OneCallAndAtomicAppend ==
    /\ pc = "calling" =>
          /\ nCalls = atSubmit.calls + 1
          /\ Len(chat_history) = atSubmit.len + 1
          /\ chat_history[atSubmit.len + 1] = UserMessage(atSubmit.question)
    /\ lastEvent = "raised" =>
          /\ nCalls = atSubmit.calls + 1
          /\ Len(chat_history) = atSubmit.len + 1
          /\ chat_history[atSubmit.len + 1] = UserMessage(atSubmit.question)
    /\ lastEvent = "returned" =>
          /\ nCalls = atSubmit.calls + 1
          /\ Len(chat_history) = atSubmit.len + 2
          /\ chat_history[atSubmit.len + 1] = UserMessage(atSubmit.question)
          /\ chat_history[atSubmit.len + 2] = AssistantMessage(answer)

\* The call raised in the middle of the stream: tokens were shown, none is kept.
C1_Witness ==
    /\ lastEvent = "raised"
    /\ callback_handler.text # <<>>
    /\ Len(chat_history) = atSubmit.len + 1
    /\ nCalls = 2

\* The ingest the click of this step asks for fails: no file, no key, no chunk
\* after splitting, or an exception from the embedding call.
IngestFails ==
    \/ uploaded_file = None
    \/ openai_api_key = ""
    \/ split_text(uploaded_file.text) = <<>>
    \/ ui' = "error_exception"

\* C2: the session is READY only if an earlier ingest succeeded, and every
\* failed ingest leaves document_processed and the conversation unchanged,
\* creating no chain.
C2_ReadyOnlyAfterSuccessfulIngest ==
    [][ /\ (document_processed' => nIngestOk' > 0)
        /\ (lastEvent' = "process" /\ IngestFails) =>
              /\ document_processed' = document_processed
              /\ conversation' = conversation
              /\ nIngestOk' = nIngestOk
              /\ ui' # "success" ]_vars

\* An empty document was processed in a session that was not READY.
C2_Witness ==
    /\ lastEvent = "process"
    /\ ui = "error_chunks"
    /\ openai_api_key # ""
    /\ ~document_processed
    /\ conversation = None

\* C3: while document_processed is false a submitted text is rejected: the
\* Transcript is unchanged and the conversation is not invoked; no step taken
\* in that state touches either.
C3_RejectedWhileAwaitingDocument ==
    [][ ~document_processed =>
          /\ chat_history' = chat_history
          /\ nCalls' = nCalls
          /\ pc' = "idle"
          /\ lastEvent' \notin {"question", "raised", "returned", "token"} ]_vars

\* A text was submitted to the disabled chat input.
C3_Witness ==
    /\ lastEvent = "rejected"
    /\ ~document_processed
    /\ chat_history = <<>>
    /\ nCalls = 0

\* The rules whose trigger is a case-insensitive substring of message m.
MatchingRules(m) ==
    { i \in 1..Len(Rules) : Contains(Lower(m), Lower(Rules[i].trigger)) }

EarliestRule(m) == CHOOSE i \in MatchingRules(m) : \A j \in MatchingRules(m) : i <= j

\* C4: when the trigger of some rule is a case-insensitive substring of the
\* accepted message, the Transcript receives the message followed by the reply
\* of the earliest such rule, and the Completion Client is not called.
C4_EarliestRuleAnswers ==
    [][ MatchingRules(atSubmit'.question) # {} =>
          /\ chat_history' = chat_history \o
                << UserMessage(atSubmit'.question),
                   AssistantMessage(Rules[EarliestRule(atSubmit'.question)].reply) >>
          /\ nCalls' = nCalls ]_vars

\* A message in mixed case that contains the triggers of both rules.
C4_Witness ==
    /\ lastEvent = "rule"
    /\ atSubmit.question = <<"p", "W">>
    /\ chat_history[2] = AssistantMessage(<<"reset-guide">>)
    /\ nCalls = 0

\* C5, as claimed: when a completion has returned, the text the handler
\* accumulated from the tokens equals the text of the assistant Message the
\* Transcript received, and the Transcript received it as one Message.
C5_StreamEqualsFinalMessage ==
    lastEvent = "returned" =>
        /\ Len(chat_history) = atSubmit.len + 2
        /\ callback_handler.text = chat_history[Len(chat_history)].content

\* C6, as claimed: a request made while the API key is empty issues no
\* external call, neither embedding nor completion, and shows the warning.
C6_KeyCheckedBeforeEveryCall ==
    [][ (openai_api_key = "" /\ lastEvent' \in {"process", "question"}) =>
          /\ nEmbedCalls' = nEmbedCalls
          /\ nCalls' = nCalls
          /\ ui' = "warn_key" ]_vars

\* C6, amended: an ingestion request made while the API key is empty issues no
\* embedding call, creates no chain and shows the key warning; a completion is
\* issued without looking at the key field, by a chain that holds the
\* non-empty key it was built with.
C6_KeyCheckedBeforeIngestOnly ==
    [][ /\ (openai_api_key = "" /\ lastEvent' = "process") =>
              /\ nEmbedCalls' = nEmbedCalls
              /\ conversation' = conversation
              /\ ui' = "warn_key"
        /\ (conversation' # None => conversation'.key # "")
        /\ (lastEvent' = "question" => nCalls' = nCalls + 1) ]_vars

\* A file is selected, the key is empty, and the click only warned.
C6_Witness ==
    /\ lastEvent = "process"
    /\ openai_api_key = ""
    /\ uploaded_file # None
    /\ ui = "warn_key"
    /\ nEmbedCalls = 0

\* C7, as claimed: while a completion call is in flight the chat input is
\* disabled, so that no further message is accepted before it is resolved.
C7_InputDisabledWhileCalling ==
    pc = "calling" => chat_input_disabled

\* C8: every step keeps the previous Transcript as a prefix of the new one,
\* and the Transcript is empty exactly as long as no message was accepted.
C8_TranscriptAppendOnly ==
    [][ /\ IsPrefix(chat_history, chat_history')
        /\ (chat_history' = <<>> <=> atSubmit' = None) ]_vars

\* A second document was ingested after an exchange, and the Transcript grew on.
C8_Witness ==
    /\ nIngestOk = 2
    /\ ingestMark >= 2
    /\ Len(chat_history) > ingestMark

\* The Transcript role-mapped to the message types of the chain's memory.
RoleMapped(history) ==
    [i \in 1..Len(history) |->
        [type |-> IF history[i].role = "user" THEN "human" ELSE "ai",
         content |-> history[i].content]]

RECURSIVE AnsweredExchanges(_)
\* The exchanges of a Transcript segment that were answered: each user message
\* directly followed by an assistant message, with that message.
AnsweredExchanges(history) ==
    IF Len(history) < 2 THEN <<>>
    ELSE IF history[1].role = "user" /\ history[2].role = "assistant"
    THEN RoleMapped(SubSeq(history, 1, 2))
            \o AnsweredExchanges(SubSeq(history, 3, Len(history)))
    ELSE AnsweredExchanges(Tail(history))

\* C9, as claimed: the history sent with a request is the full Transcript as
\* it was before the new user message, role-mapped, plus that message.
C9_RequestCarriesFullTranscript ==
    pc = "calling" =>
        /\ sent.chat_history = RoleMapped(SubSeq(chat_history, 1, Len(chat_history) - 1))
        /\ sent.question = chat_history[Len(chat_history)].content

\* C9, amended: the history sent with a request is the memory of the current
\* chain: the answered exchanges of the Transcript since the last successful
\* ingest, without the user messages whose completion failed and without
\* anything from before that ingest; plus the new user message.
C9_RequestCarriesChainMemory ==
    pc = "calling" =>
        /\ sent.chat_history =
              AnsweredExchanges(SubSeq(chat_history, ingestMark + 1, Len(chat_history) - 1))
        /\ sent.question = chat_history[Len(chat_history)].content

\* A question asked after a second ingest: the Transcript holds an earlier
\* exchange, the request carries none.
C9_Witness ==
    /\ pc = "calling"
    /\ nIngestOk = 2
    /\ Len(chat_history) = 3
    /\ sent.chat_history = <<>>

\* The chain id of a conversation value, 0 for None.
HandleId(c) == IF c = None THEN 0 ELSE c.id

\* C10: READY is never left; document_processed is true exactly when the
\* conversation is not None; a successful ingest installs a new chain and a
\* failed one keeps the previous chain.
C10_NoReverseTransition ==
    /\ (document_processed <=> conversation # None)
    /\ [][ /\ (document_processed => document_processed')
           /\ (document_processed' <=> conversation' # None)
           /\ (lastEvent' = "process" /\ ui' = "success") =>
                 /\ document_processed'
                 /\ HandleId(conversation') > HandleId(conversation)
                 /\ conversation'.memory = <<>>
           /\ (lastEvent' = "process" /\ ui' # "success") =>
                 conversation' = conversation ]_vars

\* A READY session with a non-empty chain memory saw an ingest fail.
C10_Witness ==
    /\ document_processed
    /\ lastEvent = "process"
    /\ ui = "error_exception"
    /\ conversation.memory # <<>>

====
